---- MODULE Spec2Model ----
(***************************************************************************)
(* Model of gwtransport1d.deposition: the coefficient builder              *)
(* (deposition_coefficients), the forward predictor                       *)
(* (compute_concentration), the nullspace solver (nullspace) and the       *)
(* deposition inverter (compute_deposition).                               *)
(*                                                                         *)
(* Floating point numbers are modelled as exact rationals n/d extended     *)
(* with the IEEE special values that numpy/pandas division produces:       *)
(* d = 0 and n # 0 is +/-inf, d = 0 and n = 0 is NaN.  Rounding is not     *)
(* modelled.  Timestamps are days since the first flow timestamp; the      *)
(* flow index is the daily grid 0, 1, ..., n-1.                            *)
(***************************************************************************)
EXTENDS Integers, Sequences, FiniteSets, TLC

VARIABLES
    call,             \* the entry point that was called
    args,             \* its arguments, by parameter name
    pc,               \* position in the called function
    built,            \* what deposition_coefficients computed (df_out, dt, coeff)
    deposition_ls,    \* compute_deposition: the least-squares solution
    colsOfNullspace,  \* compute_deposition: the nullspace basis
    res,              \* compute_deposition: the last optimizer result
    calls,            \* numerical library calls made so far, in order
    raised,           \* message of the raised error, "" when none
    returned          \* the returned value, NONE while there is none

vars == <<call, args, pc, built, deposition_ls, colsOfNullspace, res, calls,
          raised, returned>>

\* ------------------------------------------------------------------ bounds
\* Longest flow series (number of daily samples).
MaxLen == 3
\* Largest matrix dimension handed to nullspace directly.
MaxDim == 3

\* --------------------------------------------------- extended rationals
Abs(x) == IF x < 0 THEN -x ELSE x

Sign(x) == IF x < 0 THEN -1 ELSE IF x > 0 THEN 1 ELSE 0

RECURSIVE Gcd(_, _)
Gcd(a, b) == IF b = 0 THEN a ELSE Gcd(b, a % b)

\* The canonical representative of n/d (d may be negative or zero).
Q(n, d) ==
    IF d = 0 THEN [n |-> Sign(n), d |-> 0]
    ELSE LET g == Gcd(Abs(n), Abs(d))
         IN  [n |-> (Sign(d) * n) \div g, d |-> Abs(d) \div g]

R(i) == [n |-> i, d |-> 1]

NaN == [n |-> 0, d |-> 0]

IsNaN(a) == a.d = 0 /\ a.n = 0

IsInf(a) == a.d = 0 /\ a.n # 0

IsFinite(a) == a.d # 0

Neg(a) == [n |-> -a.n, d |-> a.d]

Add(a, b) ==
    IF IsNaN(a) \/ IsNaN(b) THEN NaN
    ELSE IF IsInf(a) /\ IsInf(b) THEN (IF a.n = b.n THEN a ELSE NaN)
    ELSE IF IsInf(a) THEN a
    ELSE IF IsInf(b) THEN b
    ELSE Q(a.n * b.d + b.n * a.d, a.d * b.d)

Sub(a, b) == Add(a, Neg(b))

Mul(a, b) == Q(a.n * b.n, a.d * b.d)

Div(a, b) == Q(a.n * b.d, a.d * b.n)

\* a < b, False when either side is NaN (IEEE comparison).
Less(a, b) ==
    IF IsNaN(a) \/ IsNaN(b) THEN FALSE
    ELSE IF IsInf(a) \/ IsInf(b)
         THEN (IF IsInf(a) /\ IsInf(b) THEN a.n < b.n
               ELSE IF IsInf(a) THEN a.n < 0 ELSE b.n > 0)
    ELSE a.n * b.d < b.n * a.d

\* a >= b, False when either side is NaN.
Geq(a, b) == ~IsNaN(a) /\ ~IsNaN(b) /\ ~Less(a, b)

\* Python's max(a, b): a unless b > a.
Max(a, b) == IF Less(a, b) THEN b ELSE a

RECURSIVE SumTo(_, _)
\* f[0] + ... + f[k-1]
SumTo(f, k) == IF k = 0 THEN R(0) ELSE Add(SumTo(f, k - 1), f[k - 1])

Len0(f) == Cardinality(DOMAIN f)

\* ------------------------------------------------ residence-time provider
\* Accumulated flow since the start of the series: the flow of day j passes
\* between grid points j-1 and j, so nothing has passed at grid point 0.
flow_cum(flow, i) == Sub(SumTo(flow, i + 1), flow[0])

\* The time at which the accumulated flow reached a (linear interpolation
\* of the grid over flow_cum), for 0 <= a <= flow_cum at the last grid point.
interp_days(flow, a) ==
    LET n == Len0(flow)
        j == CHOOSE k \in 0..(n - 1) :
                /\ Geq(a, flow_cum(flow, k))
                /\ \A m \in (k + 1)..(n - 1) : Less(a, flow_cum(flow, m))
    IN  IF j = n - 1 THEN R(j)
        ELSE Add(R(j), Div(Sub(a, flow_cum(flow, j)),
                           Sub(flow_cum(flow, j + 1), flow_cum(flow, j))))

\* Residence time in days of the water extracted at each grid point; NaN
\* (missing) where the flow since the start of the series has not yet
\* filled retardation_factor * aquifer_pore_volume.
residence_time_retarded(flow, aquifer_pore_volume, retardation_factor) ==
    [i \in DOMAIN flow |->
        LET a == Sub(flow_cum(flow, i), Mul(retardation_factor, aquifer_pore_volume))
        IN  IF Less(a, R(0)) THEN NaN ELSE Sub(R(i), interp_days(flow, a))]

\* ---------------------------------------------------- coefficient builder
\* rt.notnull()
valid_rt_mask(rt) == {i \in DOMAIN rt : ~IsNaN(rt[i])}

\* Variant: the rows in reverse order of the flow index.
RowIndex_reversed(mask, iout) ==
    CHOOSE i \in mask : Cardinality({j \in mask : j > i}) = iout

\* The flow index of row iout of df_out (rows keep the order of the index).
RowIndex(mask, iout) ==
    CHOOSE i \in mask : Cardinality({j \in mask : j < i}) = iout

\* Variant: side="right", the number of grid points at or before t.
searchsorted_right(n, t) == Cardinality({g \in 0..(n - 1) : ~Less(t, R(g))})

\* flow.index.searchsorted(t): side="left", the number of grid points
\* strictly before t.  The flow index is the daily grid 0..n-1.
searchsorted(n, t) == Cardinality({g \in 0..(n - 1) : Less(R(g), t)})

\* flow.median(): the middle value, or the mean of the two middle values.
KthSmallest(flow, k) ==
    CHOOSE v \in {flow[i] : i \in DOMAIN flow} :
        /\ Cardinality({i \in DOMAIN flow : Less(flow[i], v)}) <= k
        /\ Cardinality({i \in DOMAIN flow : ~Less(v, flow[i])}) > k

median(flow) ==
    LET n == Len0(flow)
    IN  IF n % 2 = 1 THEN KthSmallest(flow, n \div 2)
        ELSE Div(Add(KthSmallest(flow, n \div 2 - 1), KthSmallest(flow, n \div 2)), R(2))

\* Series.clip(lower=lo)
clip(x, lo) == IF Less(x, lo) THEN lo ELSE x

\* Variant: the fraction of the first day is not applied.
dt_row_whole_first_day(n, date_extraction, dates_infiltration_retarded) ==
    LET itinf  == searchsorted(n, dates_infiltration_retarded)
        itextr == searchsorted(n, R(date_extraction))
    IN  [j \in 0..(n - 1) |-> IF itinf <= j /\ j <= itextr THEN R(1) ELSE R(0)]

\* One row of dt (the unscaled weights): the loop body.
dt_row(n, date_extraction, dates_infiltration_retarded) ==
    LET itinf  == searchsorted(n, dates_infiltration_retarded)
        itextr == searchsorted(n, R(date_extraction))
    IN  [j \in 0..(n - 1) |->
            IF j = itinf THEN Neg(Sub(dates_infiltration_retarded, R(itinf)))
            ELSE IF itinf <= j /\ j <= itextr THEN R(1)
            ELSE R(0)]

\* The row of df_out for the extraction at flow index i; rnh is
\* retardation_factor * porosity * thickness.
df_row(i, rt_i, flow_i, rnh) ==
    [date  |-> i,
     rt    |-> rt_i,
     flow  |-> flow_i,
     dates_infiltration_retarded |-> Sub(R(i), rt_i),
     darea |-> Div(flow_i, rnh)]

\* df_out: one row per timestamp whose residence time is not missing.
df_out_of(flow, rt, rnh) ==
    [iout \in 0..(Cardinality(valid_rt_mask(rt)) - 1) |->
        df_row(RowIndex(valid_rt_mask(rt), iout),
               rt[RowIndex(valid_rt_mask(rt), iout)],
               flow[RowIndex(valid_rt_mask(rt), iout)], rnh)]

\* dt after the loop
dt_of(n, df_out) ==
    [iout \in DOMAIN df_out |->
        dt_row(n, df_out[iout].date, df_out[iout].dates_infiltration_retarded)]

\* Variant: the rows are divided by the flow floor instead of the clipped flow.
scale_rows_by_floor(df_out, dt, flow_floor) ==
    [iout \in DOMAIN dt |->
        [j \in DOMAIN dt[iout] |-> Mul(Div(df_out[iout].darea, flow_floor), dt[iout][j])]]

\* (df_out.darea / df_out.flow.clip(lower=flow_floor)).values[:, None] * dt
scale_rows(df_out, dt, flow_floor) ==
    [iout \in DOMAIN dt |->
        [j \in DOMAIN dt[iout] |->
            Mul(Div(df_out[iout].darea, clip(df_out[iout].flow, flow_floor)), dt[iout][j])]]

\* Variant: np.isnan(coeff).all()
AnyNaN_all(coeff) == \A r \in DOMAIN coeff : \A j \in DOMAIN coeff[r] : IsNaN(coeff[r][j])

\* np.isnan(coeff).any()
AnyNaN(coeff) == \E r \in DOMAIN coeff : \E j \in DOMAIN coeff[r] : IsNaN(coeff[r][j])

\* The nan check and the return.
check_coefficients(df_out, dt, coeff) ==
    [raised |-> IF AnyNaN(coeff) THEN "Coefficients contain nan values." ELSE "",
     df_out |-> df_out, dt |-> dt, coeff |-> coeff]

scale_and_check(df_out, dt, flow_floor) ==
    check_coefficients(df_out, dt, scale_rows(df_out, dt, flow_floor))

coefficients_from(flow, df_out) ==
    scale_and_check(df_out, dt_of(Len0(flow), df_out), Div(median(flow), R(100)))

deposition_coefficients(flow, aquifer_pore_volume, por, thick, retardation_factor) ==
    coefficients_from(flow,
        df_out_of(flow,
                  residence_time_retarded(flow, aquifer_pore_volume, retardation_factor),
                  Mul(Mul(retardation_factor, por), thick)))

\* ------------------------------------------------------- nullspace solver
\* 1e-13 and 0: singular values are counted in units of 1e-13.
default_atol == R(1)

default_rtol == R(0)

\* np.atleast_2d on a shape
atleast_2d(shape) == IF Len(shape) = 1 THEN <<1, shape[1]>> ELSE shape

\* Variant: a singular value equal to tol counts as zero.
nullspace_at_or_below(shape, sv, atol, rtol) ==
    IF Len(sv) = 0
    THEN [raised |-> "IndexError", shape |-> <<0, 0>>, vh_rows |-> {}]
    ELSE LET k   == atleast_2d(shape)[2]
             tol == Max(atol, Mul(rtol, sv[1]))
             nnz == Cardinality({i \in 1..Len(sv) : Less(tol, sv[i])})
         IN  [raised |-> "", shape |-> <<k, k - nnz>>, vh_rows |-> nnz..(k - 1)]

\* nullspace(coefficients, atol, rtol), the matrix given by its shape and by
\* the singular values sv (sv[1] the largest) that np.linalg.svd returns.
\* The result names the rows of vh that are returned as columns.
nullspace(shape, sv, atol, rtol) ==
    IF Len(sv) = 0
    THEN [raised |-> "IndexError", shape |-> <<0, 0>>, vh_rows |-> {}]
    ELSE LET k   == atleast_2d(shape)[2]
             tol == Max(atol, Mul(rtol, sv[1]))
             nnz == Cardinality({i \in 1..Len(sv) : Geq(sv[i], tol)})
         IN  [raised |-> "", shape |-> <<k, k - nnz>>, vh_rows |-> nnz..(k - 1)]

\* The array nullspace returns (nothing when it raised).
returned_basis(ns) ==
    IF ns.raised = "" THEN [shape |-> ns.shape, vh_rows |-> ns.vh_rows] ELSE [none |-> TRUE]

\* ---------------------------------------------------------------- inputs
NONE == [none |-> TRUE]

FlowValues == {0, 1, 2}

PoreVolumes == {R(1), R(2)}

Porosities == {Q(1, 2), R(1)}

Thicknesses == {R(0), R(1), R(2)}

RetardationFactors == {R(1), R(2)}

DepositionValues == {1, 3}

Objectives == {"squared_lengths", "summed_lengths", "callable", "not_a_real_objective"}

SingularValues == {0, 1, 2}

Atols == {R(0), R(1), R(2)}

Rtols == {R(0), Q(1, 2), R(1)}

FlowSeries == UNION {[0..(n - 1) -> {R(v) : v \in FlowValues}] : n \in 1..MaxLen}

Min(a, b) == IF a < b THEN a ELSE b

\* What np.linalg.svd can return as singular values: len of them, largest first.
SingularSeqs(len) ==
    {sv \in [1..len -> {R(v) : v \in SingularValues}] :
        \A i \in 1..(len - 1) : Geq(sv[i], sv[i + 1])}

Shapes == {<<k>> : k \in 1..MaxDim} \cup ((0..MaxDim) \X (1..MaxDim))

AquiferArgs ==
    [flow : FlowSeries, aquifer_pore_volume : PoreVolumes, porosity : Porosities,
     thickness : Thicknesses, retardation_factor : RetardationFactors]

\* Deposition histories over a flow index of length n: the constant ones and a ramp.
DepositionSeries(n) ==
    {[j \in 0..(n - 1) |-> R(v)] : v \in DepositionValues}
        \cup {[j \in 0..(n - 1) |-> R(j + 1)]}

ConcentrationArgs ==
    {a \in [flow : FlowSeries, aquifer_pore_volume : PoreVolumes, porosity : Porosities,
            thickness : Thicknesses \ {R(0)}, retardation_factor : RetardationFactors,
            deposition : UNION {DepositionSeries(n) : n \in 1..MaxLen}] :
        DOMAIN a.deposition = DOMAIN a.flow}

DepositionArgs ==
    [flow : FlowSeries, aquifer_pore_volume : PoreVolumes, porosity : {R(1)},
     thickness : {R(1)}, retardation_factor : RetardationFactors,
     len_cout : 0..(MaxLen + 1), nullspace_objective : Objectives]

NullspaceArgs ==
    {a \in [coefficients : Shapes, atol : Atols, rtol : Rtols,
            s : UNION {SingularSeqs(len) : len \in 0..MaxDim}] :
        Len(a.s) = Min(atleast_2d(a.coefficients)[1], atleast_2d(a.coefficients)[2])}

Init ==
    /\ \/ call = "deposition_coefficients" /\ args \in AquiferArgs
       \/ call = "compute_concentration" /\ args \in ConcentrationArgs
       \/ call = "nullspace" /\ args \in NullspaceArgs
       \/ call = "compute_deposition" /\ args \in DepositionArgs
    /\ pc = "start"
    /\ built = NONE
    /\ deposition_ls = NONE
    /\ colsOfNullspace = NONE
    /\ res = NONE
    /\ calls = <<>>
    /\ raised = ""
    /\ returned = NONE

Build(a) ==
    deposition_coefficients(a.flow, a.aquifer_pore_volume, a.porosity, a.thickness,
                            a.retardation_factor)

\* ------------------------------------------------- deposition_coefficients
Call_deposition_coefficients ==
    /\ call = "deposition_coefficients" /\ pc = "start"
    /\ built' = Build(args)
    /\ raised' = built'.raised
    /\ returned' = IF built'.raised = ""
                   THEN [df_out |-> built'.df_out, coeff |-> built'.coeff]
                   ELSE NONE
    /\ pc' = "done"
    /\ UNCHANGED <<call, args, deposition_ls, colsOfNullspace, res, calls>>

\* --------------------------------------------------- compute_concentration
\* coeff @ deposition
matvec(coeff, x) ==
    [r \in DOMAIN coeff |->
        SumTo([j \in DOMAIN x |-> Mul(coeff[r][j], x[j])], Len0(x))]

\* flow.index[valid_rt_mask]
valid_index(rt) ==
    [r \in 0..(Cardinality(valid_rt_mask(rt)) - 1) |-> RowIndex(valid_rt_mask(rt), r)]

Call_compute_concentration ==
    /\ call = "compute_concentration" /\ pc = "start"
    /\ built' = Build(args)
    /\ raised' = built'.raised
    /\ returned' = IF built'.raised = ""
                   THEN [data  |-> matvec(built'.coeff, args.deposition),
                         index |-> valid_index(residence_time_retarded(
                                       args.flow, args.aquifer_pore_volume,
                                       args.retardation_factor)),
                         name  |-> "cout"]
                   ELSE NONE
    /\ pc' = "done"
    /\ UNCHANGED <<call, args, deposition_ls, colsOfNullspace, res, calls>>

\* --------------------------------------------------------------- nullspace
Call_nullspace ==
    /\ call = "nullspace" /\ pc = "start"
    /\ returned' = returned_basis(nullspace(args.coefficients, args.s, args.atol, args.rtol))
    /\ raised' = nullspace(args.coefficients, args.s, args.atol, args.rtol).raised
    /\ pc' = "done"
    /\ UNCHANGED <<call, args, built, deposition_ls, colsOfNullspace, res, calls>>

\* ------------------------------------------------------ compute_deposition
ShapeMismatch == "Length of cout should be equal to the number of rows in coeff"

OptimizationFailed == "Optimization failed: Desired error not necessarily achieved due to precision loss."

UnknownObjective == "Unknown nullspace objective"

\* np.zeros(nullrank)
zeros(nullrank) == [dim |-> nullrank, id |-> 0]

\* What scipy.optimize.minimize can return for a problem of the given
\* dimension: a point (id 0 is the zero vector) and whether it converged.
OptimizeResults(dim) ==
    [x : [dim : {dim}, id : 0..1], success : BOOLEAN,
     message : {"Desired error not necessarily achieved due to precision loss."}]

\* coeff = deposition_coefficients(...)
CD_coefficients ==
    /\ call = "compute_deposition" /\ pc = "start"
    /\ built' = Build(args)
    /\ raised' = built'.raised
    /\ pc' = IF built'.raised = "" THEN "check_shape" ELSE "done"
    /\ UNCHANGED <<call, args, deposition_ls, colsOfNullspace, res, calls, returned>>

\* Variant: a cout of the wrong length is accepted.
CD_check_shape_skipped ==
    /\ call = "compute_deposition" /\ pc = "check_shape"
    /\ pc' = "lstsq"
    /\ UNCHANGED <<call, args, built, deposition_ls, colsOfNullspace, res, calls, raised,
                   returned>>

\* if len(cout) != coeff.shape[0]: raise
CD_check_shape ==
    /\ call = "compute_deposition" /\ pc = "check_shape"
    /\ IF args.len_cout # Len0(built.coeff)
       THEN raised' = ShapeMismatch /\ pc' = "done"
       ELSE raised' = raised /\ pc' = "lstsq"
    /\ UNCHANGED <<call, args, built, deposition_ls, colsOfNullspace, res, calls, returned>>

\* deposition_ls = np.linalg.lstsq(coeff, cout)
CD_lstsq ==
    /\ call = "compute_deposition" /\ pc = "lstsq"
    /\ deposition_ls' = [lstsq_of |-> "coeff, cout"]
    /\ calls' = Append(calls, [fn |-> "lstsq"])
    /\ pc' = "nullspace"
    /\ UNCHANGED <<call, args, built, colsOfNullspace, res, raised, returned>>

\* colsOfNullspace = nullspace(coeff)
CD_nullspace ==
    /\ call = "compute_deposition" /\ pc = "nullspace"
    /\ \E sv \in SingularSeqs(Min(Len0(built.coeff), Len0(args.flow))) :
          /\ colsOfNullspace' = returned_basis(nullspace(
                  <<Len0(built.coeff), Len0(args.flow)>>, sv, default_atol, default_rtol))
          /\ raised' = nullspace(<<Len0(built.coeff), Len0(args.flow)>>, sv,
                                 default_atol, default_rtol).raised
          /\ pc' = IF raised' = "" THEN "minimize_squared" ELSE "done"
    /\ calls' = Append(calls, [fn |-> "nullspace"])
    /\ UNCHANGED <<call, args, built, deposition_ls, res, returned>>

\* res = minimize(squared lengths, x0=zeros)
CD_minimize_squared ==
    /\ call = "compute_deposition" /\ pc = "minimize_squared"
    /\ LET nullrank == colsOfNullspace.shape[2]
       IN  \E r \in OptimizeResults(nullrank) :
             /\ res' = r
             /\ calls' = Append(calls, [fn |-> "minimize", objective |-> "squared_lengths",
                                        x0 |-> zeros(nullrank), res |-> r])
    /\ pc' = "check_success"
    /\ UNCHANGED <<call, args, built, deposition_ls, colsOfNullspace, raised, returned>>

\* if not res.success: raise
CD_check_success ==
    /\ call = "compute_deposition" /\ pc = "check_success"
    /\ IF ~res.success
       THEN raised' = OptimizationFailed /\ pc' = "done"
       ELSE raised' = raised /\ pc' = "second_stage"
    /\ UNCHANGED <<call, args, built, deposition_ls, colsOfNullspace, res, calls, returned>>

\* Variant: the second minimization starts from zero again.
CD_second_stage_cold ==
    /\ call = "compute_deposition" /\ pc = "second_stage"
    /\ IF args.nullspace_objective # "squared_lengths"
       THEN IF args.nullspace_objective \in {"summed_lengths", "callable"}
            THEN \E r \in OptimizeResults(colsOfNullspace.shape[2]) :
                    /\ res' = r
                    /\ calls' = Append(calls, [fn |-> "minimize",
                                               objective |-> args.nullspace_objective,
                                               x0 |-> zeros(colsOfNullspace.shape[2]),
                                               res |-> r])
                    /\ raised' = raised
                    /\ pc' = "return"
            ELSE /\ raised' = UnknownObjective
                 /\ pc' = "done"
                 /\ UNCHANGED <<res, calls>>
       ELSE /\ pc' = "return"
            /\ UNCHANGED <<res, calls, raised>>
    /\ UNCHANGED <<call, args, built, deposition_ls, colsOfNullspace, returned>>

\* the second stage: summed_lengths, a callable, or the unknown objective error
CD_second_stage ==
    /\ call = "compute_deposition" /\ pc = "second_stage"
    /\ IF args.nullspace_objective # "squared_lengths"
       THEN IF args.nullspace_objective \in {"summed_lengths", "callable"}
            THEN \E r \in OptimizeResults(colsOfNullspace.shape[2]) :
                    /\ res' = r
                    /\ calls' = Append(calls, [fn |-> "minimize",
                                               objective |-> args.nullspace_objective,
                                               x0 |-> res.x, res |-> r])
                    /\ raised' = raised
                    /\ pc' = "return"
            ELSE /\ raised' = UnknownObjective
                 /\ pc' = "done"
                 /\ UNCHANGED <<res, calls>>
       ELSE /\ pc' = "return"
            /\ UNCHANGED <<res, calls, raised>>
    /\ UNCHANGED <<call, args, built, deposition_ls, colsOfNullspace, returned>>

\* return Series(deposition_ls + colsOfNullspace @ res.x, index=flow.index)
CD_return ==
    /\ call = "compute_deposition" /\ pc = "return"
    /\ returned' = [data  |-> [xLS |-> deposition_ls, colsOfNullspace |-> colsOfNullspace,
                               x |-> res.x],
                    index |-> DOMAIN args.flow,
                    name  |-> "deposition"]
    /\ pc' = "done"
    /\ UNCHANGED <<call, args, built, deposition_ls, colsOfNullspace, res, calls, raised>>

Next ==
    \/ Call_deposition_coefficients
    \/ Call_compute_concentration
    \/ Call_nullspace
    \/ CD_coefficients
    \/ CD_check_shape
    \/ CD_lstsq
    \/ CD_nullspace
    \/ CD_minimize_squared
    \/ CD_check_success
    \/ CD_second_stage
    \/ CD_return

Spec == Init /\ [][Next]_vars

\* ======================================================== claims
IsCoefficientCall == call \in {"deposition_coefficients", "compute_concentration"}

Rows == DOMAIN built.dt

Cols == DOMAIN args.flow

\* C1: in compute_deposition, when len(cout) differs from the number of rows
\* of the coefficient matrix that was built, the call raises the shape
\* mismatch error before lstsq, nullspace or any minimization has run, and
\* returns nothing.
C1_ShapeMismatchFirst ==
    (/\ call = "compute_deposition"
     /\ built # NONE
     /\ built.raised = ""
     /\ args.len_cout # Len0(built.coeff))
    => /\ calls = <<>>
       /\ returned = NONE
       /\ deposition_ls = NONE /\ colsOfNullspace = NONE /\ res = NONE
       /\ pc \in {"check_shape", "done"}
       /\ pc = "done" => raised = ShapeMismatch

C1_Witness ==
    /\ call = "compute_deposition" /\ pc = "done"
    /\ built # NONE /\ built.raised = ""
    /\ args.len_cout = Len0(built.coeff) + 1
    /\ raised = ShapeMismatch

\* C2 (as claimed): for an objective that is none of "squared_lengths",
\* "summed_lengths" or a callable, no minimization runs before the unknown
\* objective error, and the call does not end with another error of the
\* optimization stage.
C2_UnknownObjectiveBeforeOptimization ==
    (/\ call = "compute_deposition"
     /\ args.nullspace_objective = "not_a_real_objective"
     /\ colsOfNullspace # NONE)
    => /\ \A c \in 1..Len(calls) : calls[c].fn # "minimize"
       /\ pc = "done" => raised = UnknownObjective

\* C3 (as claimed): a deposition series is returned only when every
\* minimization that ran reported success.
C3_ReturnOnlyWhenConverged ==
    (call = "compute_deposition" /\ returned # NONE)
    => \A c \in 1..Len(calls) : calls[c].fn = "minimize" => calls[c].res.success

\* C4: deposition_coefficients never returns a matrix with a non-finite
\* entry: whenever a scaled coefficient is NaN, +inf or -inf an error is raised.
C4_NonFiniteRejected ==
    built # NONE =>
        /\ (\E r \in DOMAIN built.coeff : \E j \in DOMAIN built.coeff[r] :
                ~IsFinite(built.coeff[r][j]))
           => (raised # "" /\ returned = NONE)
        /\ (IsCoefficientCall /\ returned # NONE)
           => \A r \in DOMAIN built.coeff : \A j \in DOMAIN built.coeff[r] :
                IsFinite(built.coeff[r][j])

C4_Witness ==
    /\ call = "deposition_coefficients" /\ pc = "done"
    /\ \E r \in DOMAIN built.coeff : \E j \in DOMAIN built.coeff[r] : IsInf(built.coeff[r][j])
    /\ raised = "Coefficients contain nan values."

\* The grid index at or before t, and the one at or after t.
IndexAtOrBefore(t) ==
    CHOOSE g \in Cols : Geq(t, R(g)) /\ \A h \in Cols : h > g => Less(t, R(h))

IndexAtOrAfter(t) ==
    CHOOSE g \in Cols : Geq(R(g), t) /\ \A h \in Cols : h < g => Less(R(h), t)

InfiltrationOf(r) == built.df_out[r].dates_infiltration_retarded

OnGrid(t) == \E g \in Cols : t = R(g)

\* C5 (as claimed): with i_inf the grid index at or before the infiltration
\* timestamp, columns i_inf+1..i_extr weigh 1, column i_inf weighs
\* 1 - (infiltration_timestamp - grid[i_inf]) and every other column 0.
C5_WeightsAtOrBefore ==
    built # NONE =>
        \A r \in Rows :
            LET i_inf == IndexAtOrBefore(InfiltrationOf(r))
            IN  \A j \in Cols :
                  built.dt[r][j] =
                      IF j = i_inf THEN Sub(R(1), Sub(InfiltrationOf(r), R(i_inf)))
                      ELSE IF i_inf < j /\ j <= built.df_out[r].date THEN R(1)
                      ELSE R(0)

\* C5 (amended): with i_inf the grid index at or after the infiltration
\* timestamp, columns i_inf+1..i_extr weigh 1, column i_inf weighs
\* grid[i_inf] - infiltration_timestamp (one minus the offset from the grid
\* point before, or 0 on a grid point) and every other column 0.
C5_WeightsAtOrAfter ==
    built # NONE =>
        \A r \in Rows :
            LET i_inf == IndexAtOrAfter(InfiltrationOf(r))
            IN  \A j \in Cols :
                  built.dt[r][j] =
                      IF j = i_inf THEN Sub(R(i_inf), InfiltrationOf(r))
                      ELSE IF i_inf < j /\ j <= built.df_out[r].date THEN R(1)
                      ELSE R(0)

C5_Witness ==
    /\ call = "deposition_coefficients" /\ pc = "done" /\ returned # NONE
    /\ \E r \in Rows : OnGrid(InfiltrationOf(r))
    /\ \E r \in Rows : ~OnGrid(InfiltrationOf(r))

\* The singular values of args.s that count as zero under tolerance tol when
\* "zero" means cmp(value, tol), with the rows of vh that have no singular value.
Tol == Max(args.atol, Mul(args.rtol, args.s[1]))

NullRows(atOrBelow) ==
    {i \in 0..(atleast_2d(args.coefficients)[2] - 1) :
        \/ i >= Len(args.s)
        \/ IF atOrBelow THEN ~Less(Tol, args.s[i + 1]) ELSE Less(args.s[i + 1], Tol)}

\* C6 (as claimed): the basis is the right-singular vectors whose singular
\* value is at or below tol, with those that have no singular value; the
\* result has shape (n_columns x nullity).
C6_AtOrBelowTol ==
    (call = "nullspace" /\ returned # NONE)
    => /\ returned.vh_rows = NullRows(TRUE)
       /\ returned.shape = <<atleast_2d(args.coefficients)[2], Cardinality(NullRows(TRUE))>>

\* C6 (amended): the basis is the right-singular vectors whose singular
\* value is strictly below tol, with those that have no singular value; the
\* result has shape (n_columns x nullity).
C6_StrictlyBelowTol ==
    (call = "nullspace" /\ returned # NONE)
    => /\ returned.vh_rows = NullRows(FALSE)
       /\ returned.shape = <<atleast_2d(args.coefficients)[2], Cardinality(NullRows(FALSE))>>

C6_Witness ==
    /\ call = "nullspace" /\ returned # NONE
    /\ \E i \in 1..Len(args.s) : args.s[i] = Tol
    /\ \E i \in 1..Len(args.s) : Less(args.s[i], Tol)
    /\ Len(args.s) < atleast_2d(args.coefficients)[2]

\* The minimizations compute_deposition has run, in order.
Minimizations == SelectSeq(calls, LAMBDA c : c.fn = "minimize")

\* C7: the squared_lengths minimization runs first, from w = 0; for
\* "squared_lengths" nothing follows; for "summed_lengths" and a callable one
\* more minimization follows, with the requested objective, started at the
\* first one's result; the returned deposition is x_ls + N w* for the w* of
\* the last minimization, over the full flow index.
C7_StagesAndSeeds ==
    call = "compute_deposition" =>
        /\ Len(Minimizations) <= 2
        /\ Len(Minimizations) >= 1 =>
              /\ Minimizations[1].objective = "squared_lengths"
              /\ Minimizations[1].x0 = zeros(colsOfNullspace.shape[2])
        /\ Len(Minimizations) = 2 =>
              /\ args.nullspace_objective \in {"summed_lengths", "callable"}
              /\ Minimizations[2].objective = args.nullspace_objective
              /\ Minimizations[2].x0 = Minimizations[1].res.x
        /\ returned # NONE =>
              /\ Len(Minimizations) =
                    IF args.nullspace_objective = "squared_lengths" THEN 1 ELSE 2
              /\ returned.data = [xLS |-> deposition_ls, colsOfNullspace |-> colsOfNullspace,
                                  x |-> Minimizations[Len(Minimizations)].res.x]
              /\ returned.index = DOMAIN args.flow

C7_Witness ==
    /\ call = "compute_deposition" /\ returned # NONE
    /\ args.nullspace_objective = "summed_lengths"
    /\ Len(Minimizations) = 2
    /\ Minimizations[1].res.x.id = 1
    /\ Minimizations[2].res.x.id = 0
    /\ colsOfNullspace.shape[2] >= 1

\* The residence time of the call's flow and aquifer.
ResidenceTime ==
    residence_time_retarded(args.flow, args.aquifer_pore_volume, args.retardation_factor)

NotMissing == {i \in Cols : ~IsNaN(ResidenceTime[i])}

ZeroRow(r) == \A j \in Cols : built.coeff[r][j] = R(0)

C8_Shape ==
    /\ Cardinality(DOMAIN built.coeff) = Cardinality(NotMissing)
    /\ {built.df_out[r].date : r \in DOMAIN built.coeff} = NotMissing
    /\ \A r \in DOMAIN built.coeff : DOMAIN built.coeff[r] = Cols
    /\ \A r1, r2 \in DOMAIN built.coeff :
          r1 < r2 => built.df_out[r1].date < built.df_out[r2].date

\* C8 (as claimed): one row per timestamp whose residence time is not
\* missing, in the order of the flow index, n_flow_samples columns, and no
\* returned row with residence_time > 0 and infiltration at or after the
\* first flow timestamp is all-zero.
C8_NoZeroRow ==
    (IsCoefficientCall /\ returned # NONE)
    => /\ C8_Shape
       /\ \A r \in DOMAIN built.coeff :
             (Less(R(0), built.df_out[r].rt) /\ Geq(InfiltrationOf(r), R(0)))
             => ~ZeroRow(r)

\* C8 (amended): as claimed, but a row is guaranteed not to be all-zero only
\* when the flow at its extraction timestamp is nonzero.
C8_NoZeroRowUnlessZeroFlow ==
    (IsCoefficientCall /\ returned # NONE)
    => /\ C8_Shape
       /\ \A r \in DOMAIN built.coeff :
             (/\ Less(R(0), built.df_out[r].rt)
              /\ Geq(InfiltrationOf(r), R(0))
              /\ args.flow[built.df_out[r].date] # R(0))
             => ~ZeroRow(r)

C8_Witness ==
    /\ call = "deposition_coefficients" /\ returned # NONE
    /\ NotMissing # {} /\ NotMissing # Cols
    /\ \E r \in DOMAIN built.coeff : ZeroRow(r)
    /\ \E r \in DOMAIN built.coeff : ~ZeroRow(r)

\* Constant flow Q > 0, valid aquifer parameters, constant deposition d.
SteadyState ==
    /\ call = "compute_concentration" /\ returned # NONE
    /\ \A i \in Cols : args.flow[i] = args.flow[0] /\ Less(R(0), args.flow[0])
    /\ \A i \in Cols : args.deposition[i] = args.deposition[0]
    /\ Less(R(0), args.thickness) /\ Less(R(0), args.porosity)

\* C9 (as claimed): in steady state every valid row's concentration equals d.
C9_ConcentrationEqualsDeposition ==
    SteadyState => \A r \in DOMAIN returned.data : returned.data[r] = args.deposition[0]

\* C9 (amended): in steady state every valid row's concentration is the same
\* constant d * aquifer_pore_volume / (Q * porosity * thickness).
C9_ConcentrationSteadyState ==
    SteadyState =>
        \A r \in DOMAIN returned.data :
            returned.data[r] =
                Div(Mul(args.deposition[0], args.aquifer_pore_volume),
                    Mul(Mul(args.flow[0], args.porosity), args.thickness))

C9_Witness ==
    /\ SteadyState
    /\ Cardinality(DOMAIN returned.data) >= 2
    /\ returned.data[0] # args.deposition[0]
    /\ ~OnGrid(InfiltrationOf(0))

\* C10: the unscaled weights of every valid row whose infiltration timestamp
\* is at or after the first flow timestamp lie in [0, 1], sum to the row's
\* residence time in days, and are zero after the extraction column.
C10_WeightsSumToResidenceTime ==
    built # NONE =>
        \A r \in Rows :
            Geq(InfiltrationOf(r), R(0)) =>
                /\ \A j \in Cols : Geq(built.dt[r][j], R(0)) /\ Geq(R(1), built.dt[r][j])
                /\ SumTo(built.dt[r], Len0(built.dt[r])) = built.df_out[r].rt
                /\ \A j \in Cols : j > built.df_out[r].date => built.dt[r][j] = R(0)

C10_Witness ==
    /\ built # NONE /\ pc = "done"
    /\ \E r \in Rows : OnGrid(InfiltrationOf(r)) /\ built.df_out[r].date < Len0(args.flow) - 1
    /\ \E r \in Rows : ~OnGrid(InfiltrationOf(r)) /\ Less(R(1), built.df_out[r].rt)

====
